---- MODULE Spec2Model ----
(***************************************************************************)
(* Headline_Score: the inference service (score_headlines_api.py) and the  *)
(* dashboard client (score_headlines_streamlit.py).                        *)
(*                                                                         *)
(* A text is a sequence of tokens; a token is one whitespace character or  *)
(* one run of non-whitespace characters, so str.strip() and                *)
(* str.splitlines() act on it as they act on a Python string.              *)
(***************************************************************************)
EXTENDS Integers, Sequences, FiniteSets, TLC

VARIABLES
    proc,        \* the service process: "loading", "serving" or "aborted"
    CLASSIFIER,  \* module global CLASSIFIER: the loaded artifact, "unset" before
    EMBEDDER,    \* module global EMBEDDER: the loaded artifact, "unset" before
    loadCount,   \* how many times the module-level load block has run
    exchange,    \* the last request/response pair seen by a direct HTTP caller
    rows,        \* st.session_state.rows
    results,     \* st.session_state.results
    used_rows,   \* st.session_state.used_rows
    clicked,     \* the widget event of the last script run
    sent,        \* the batches POSTed by the client during the last script run
    notice       \* what the last script run showed (st.warning/error/toast)

service_vars == <<proc, CLASSIFIER, EMBEDDER, loadCount>>
client_vars == <<rows, results, used_rows, clicked, sent, notice>>
vars == <<proc, CLASSIFIER, EMBEDDER, loadCount, exchange,
          rows, results, used_rows, clicked, sent, notice>>

(***************************************************************************)
(* Bounds                                                                  *)
(***************************************************************************)
\* longest batch a direct caller posts to the service
MaxBatch == 3
\* "Add headline" is offered while the list is shorter than this
MaxRows == 2

(***************************************************************************)
(* Python values                                                           *)
(***************************************************************************)
None == [none |-> TRUE]
Some(v) == [some |-> v]

Whitespace == {" ", "\n"}

RECURSIVE lstrip(_)
lstrip(s) ==
    IF s # <<>> /\ Head(s) \in Whitespace THEN lstrip(Tail(s)) ELSE s

RECURSIVE rstrip(_)
rstrip(s) ==
    IF s # <<>> /\ s[Len(s)] \in Whitespace
    THEN rstrip(SubSeq(s, 1, Len(s) - 1))
    ELSE s

\* str.strip()
strip(s) == rstrip(lstrip(s))

\* str.splitlines(): a line ends at each "\n"; a last line without one is
\* kept when it is not empty
RECURSIVE splitlines_from(_, _)
splitlines_from(s, line) ==
    IF s = <<>>
    THEN (IF line = <<>> THEN <<>> ELSE <<line>>)
    ELSE IF Head(s) = "\n"
         THEN <<line>> \o splitlines_from(Tail(s), <<>>)
         ELSE splitlines_from(Tail(s), Append(line, Head(s)))

splitlines(s) == splitlines_from(s, <<>>)

(***************************************************************************)
(* Inference service: score_headlines_api.py                               *)
(***************************************************************************)
\* The pretrained artifacts are files outside the repository.  joblib.load
\* yields one of the classifiers below; a classifier maps an embedding to a
\* class code, and nothing in the code restricts the code to 0..2.
ClassifierArtifacts == {"svm_in_range", "svm_out_of_range"}
EmbedderArtifacts == {"all-MiniLM-L6-v2"}

RECURSIVE WordCount(_)
WordCount(h) ==
    IF h = <<>> THEN 0
    ELSE (IF Head(h) \in Whitespace THEN 0 ELSE 1) + WordCount(Tail(h))

\* EMBEDDER.encode on one text: a fixed vector for a fixed text; the model
\* keeps three vectors apart
Encode(h) == WordCount(h) % 3

\* CLASSIFIER.predict on one embedding
Predict(c, e) == IF c = "svm_in_range" THEN e ELSE 2 * e - 1

LABELS == (0 :> "Pessimistic") @@ (1 :> "Neutral") @@ (2 :> "Optimistic")

\* mutation: the fallback of LABELS.get is a class name
LabelsGet_default_neutral(label) ==
    IF label \in DOMAIN LABELS THEN LABELS[label] ELSE "Neutral"

\* LABELS.get(label, "Unknown")
LabelsGet(label) ==
    IF label \in DOMAIN LABELS THEN LABELS[label] ELSE "Unknown"

\* what an exception raised inside encode or predict can say
ExcMessages == {"CUDA out of memory", "shape mismatch"}

\* what the library calls of one request do: both return, or one raises
Faults ==
    {[at |-> "none", msg |-> ""]}
    \cup {[at |-> a, msg |-> m] : a \in {"encode", "predict"}, m \in ExcMessages}

Response(status, detail, body_status, has_labels, labels, encode_calls, predict_calls, predictions, raised) ==
    [status |-> status, detail |-> detail, body_status |-> body_status,
     has_labels |-> has_labels, labels |-> labels,
     encode_calls |-> encode_calls, predict_calls |-> predict_calls,
     predictions |-> predictions, raised |-> raised]

\* mutation: detail=str(exc)
InternalError_leaks(encode_calls, predict_calls, exc) ==
    Response(500, exc, "", FALSE, <<>>, encode_calls, predict_calls, <<>>, exc)

\* raise HTTPException(status_code=500, detail="Internal server error.")
InternalError(encode_calls, predict_calls, exc) ==
    Response(500, "Internal server error.", "", FALSE, <<>>,
             encode_calls, predict_calls, <<>>, exc)

\* mutation: the health report depends on the request handled before
get_status_degraded ==
    IF exchange.response.status = 500
    THEN Response(503, "", "DEGRADED", FALSE, <<>>, 0, 0, <<>>, "")
    ELSE Response(200, "", "OK", FALSE, <<>>, 0, 0, <<>>, "")

\* def get_status()
get_status ==
    Response(200, "", "OK", FALSE, <<>>, 0, 0, <<>>, "")

\* the try block of score_headlines over the texts it is given
Inference(texts, fault) ==
    IF EMBEDDER = "unset"
    THEN InternalError(0, 0, "NameError")
    ELSE IF fault.at = "encode"
    THEN InternalError(1, 0, fault.msg)
    ELSE IF CLASSIFIER = "unset"
    THEN InternalError(1, 0, "NameError")
    ELSE IF fault.at = "predict"
    THEN InternalError(1, 1, fault.msg)
    ELSE
        LET embeddings == [i \in 1 .. Len(texts) |-> Encode(texts[i])]
            predictions ==
                [i \in 1 .. Len(embeddings) |-> Predict(CLASSIFIER, embeddings[i])]
            labels == [i \in 1 .. Len(predictions) |-> LabelsGet(predictions[i])]
        IN  Response(200, "", "", TRUE, labels, 1, 1, predictions, "")

\* mutation: empty strings are dropped before encoding
score_headlines_skip_empty(headlines, fault) ==
    IF headlines = <<>>
    THEN Response(400, "No headlines provided.", "", FALSE, <<>>, 0, 0, <<>>, "")
    ELSE Inference(SelectSeq(headlines, LAMBDA h : h # <<>>), fault)

\* mutation: the emptiness test comes after the inference
score_headlines_late_check(headlines, fault) ==
    LET r == Inference(headlines, fault)
    IN  IF headlines = <<>>
        THEN Response(400, "No headlines provided.", "", FALSE, <<>>,
                      r.encode_calls, r.predict_calls, <<>>, "")
        ELSE r

\* def score_headlines(request)
score_headlines(headlines, fault) ==
    IF headlines = <<>>
    THEN Response(400, "No headlines provided.", "", FALSE, <<>>, 0, 0, <<>>, "")
    ELSE Inference(headlines, fault)

\* what joblib.load and SentenceTransformer(...) can do at import
LoadOutcomes ==
    {[classifier |-> c, embedder |-> e] :
        c \in ClassifierArtifacts \cup {"raises"},
        e \in EmbedderArtifacts \cup {"raises"}}

\* mutation: a failed load is logged and the process goes on to serve
LoadModels_swallow(out) ==
    /\ proc = "loading"
    /\ loadCount' = loadCount + 1
    /\ proc' = "serving"
    /\ CLASSIFIER' = (IF out.classifier = "raises" THEN "unset" ELSE out.classifier)
    /\ EMBEDDER' = (IF "raises" \in {out.classifier, out.embedder}
                    THEN "unset" ELSE out.embedder)
    /\ UNCHANGED <<exchange, rows, results, used_rows, clicked, sent, notice>>

\* the module-level try block, lines 15-22
LoadModels(out) ==
    /\ proc = "loading"
    /\ loadCount' = loadCount + 1
    /\ IF out.classifier = "raises"
       THEN /\ proc' = "aborted"
            /\ UNCHANGED <<CLASSIFIER, EMBEDDER>>
       ELSE IF out.embedder = "raises"
       THEN /\ proc' = "aborted"
            /\ CLASSIFIER' = out.classifier
            /\ UNCHANGED EMBEDDER
       ELSE /\ proc' = "serving"
            /\ CLASSIFIER' = out.classifier
            /\ EMBEDDER' = out.embedder
    /\ UNCHANGED <<exchange, rows, results, used_rows, clicked, sent, notice>>

Load == \E out \in LoadOutcomes : LoadModels(out)

\* prev is the status of the exchange before this one (0: there was none)
Exchange(method, headlines, response, prev) ==
    [method |-> method, headlines |-> headlines, response |-> response,
     prev |-> prev]

NoExchange ==
    Exchange("none", <<>>, Response(0, "", "", FALSE, <<>>, 0, 0, <<>>, ""), 0)

\* the texts a direct caller puts in a batch
Headlines == {<<>>, <<"up">>, <<"up", " ", "down">>}

Batches == UNION {[1 .. n -> Headlines] : n \in 0 .. MaxBatch}

\* a direct caller's GET /status
GetStatus ==
    /\ proc = "serving"
    /\ exchange' = Exchange("GET /status", <<>>, get_status,
                            exchange.response.status)
    /\ UNCHANGED <<service_vars, client_vars>>

\* a direct caller's POST /score_headlines
PostScoreHeadlines(headlines, fault) ==
    /\ proc = "serving"
    /\ exchange' = Exchange("POST /score_headlines", headlines,
                            score_headlines(headlines, fault),
                            exchange.response.status)
    /\ UNCHANGED <<service_vars, client_vars>>

PostScore ==
    \E headlines \in Batches, fault \in Faults :
        PostScoreHeadlines(headlines, fault)

InitialRows ==
    << <<"Stocks", " ", "sink", " ", "on", " ", "inflation", " ", "jitters">>,
       <<"Company", " ", "beats", " ", "earnings", " ", "expectations">>,
       <<"Oil", " ", "prices", " ", "fall", " ", "amid", " ", "weak", " ", "demand">> >>

Init ==
    /\ proc = "loading"
    /\ CLASSIFIER = "unset"
    /\ EMBEDDER = "unset"
    /\ loadCount = 0
    /\ exchange = NoExchange
    /\ rows = InitialRows
    /\ results = None
    /\ used_rows = None
    /\ clicked = "none"
    /\ sent = <<>>
    /\ notice = "none"

NextService == Load \/ GetStatus \/ PostScore

SpecService == Init /\ [][NextService]_vars

(***************************************************************************)
(* Claims about the service, under SpecService                             *)
(***************************************************************************)
Scored == exchange.method = "POST /score_headlines"

\* C1: a non-empty batch that is answered with labels gets as many labels as
\* it has headlines, and label i is the label of headline i
C1_LabelsAligned ==
    (Scored /\ exchange.headlines # <<>> /\ exchange.response.status = 200) =>
        /\ exchange.response.has_labels
        /\ Len(exchange.response.labels) = Len(exchange.headlines)
        /\ \A i \in 1 .. Len(exchange.headlines) :
              exchange.response.labels[i] =
                  LabelsGet(Predict(CLASSIFIER, Encode(exchange.headlines[i])))

C1_Witness ==
    /\ Scored
    /\ exchange.response.status = 200
    /\ Len(exchange.headlines) = 3
    /\ exchange.headlines[1] = <<>>
    /\ exchange.response.labels[1] # exchange.response.labels[2]
    /\ exchange.response.labels[2] # exchange.response.labels[3]

\* C2: an empty batch is answered 400 and neither model is invoked
C2_EmptyBatch400 ==
    (Scored /\ exchange.headlines = <<>>) =>
        /\ exchange.response.status = 400
        /\ ~exchange.response.has_labels
        /\ exchange.response.encode_calls = 0
        /\ exchange.response.predict_calls = 0

C2_Witness ==
    /\ Scored
    /\ exchange.headlines = <<>>
    /\ exchange.response.status = 400

NameOfCode(code) ==
    CASE code = 0 -> "Pessimistic"
      [] code = 1 -> "Neutral"
      [] code = 2 -> "Optimistic"
      [] OTHER -> "Unknown"

\* C3: every returned label is the name of the classifier's code, "Unknown"
\* for a code outside 0..2
C3_LabelMapping ==
    (Scored /\ exchange.response.has_labels) =>
        /\ Len(exchange.response.labels) = Len(exchange.response.predictions)
        /\ \A i \in 1 .. Len(exchange.response.labels) :
              /\ exchange.response.labels[i] =
                     NameOfCode(exchange.response.predictions[i])
              /\ exchange.response.labels[i] \in
                     {"Pessimistic", "Neutral", "Optimistic", "Unknown"}

C3_Witness ==
    /\ Scored
    /\ exchange.response.has_labels
    /\ \E i, j \in 1 .. Len(exchange.response.labels) :
          /\ exchange.response.predictions[i] \notin {0, 1, 2}
          /\ exchange.response.labels[i] = "Unknown"
          /\ exchange.response.predictions[j] = 1
          /\ exchange.response.labels[j] = "Neutral"

\* C4: an exception in encode or predict ends the request with 500 and the
\* fixed detail, with no labels, and the service is still serving
C4_GenericServerError ==
    (Scored /\ exchange.response.raised # "") =>
        /\ exchange.response.status = 500
        /\ exchange.response.detail = "Internal server error."
        /\ ~exchange.response.has_labels
        /\ exchange.response.labels = <<>>
        /\ proc = "serving"
        /\ CLASSIFIER \in ClassifierArtifacts
        /\ EMBEDDER \in EmbedderArtifacts

C4_Witness ==
    /\ Scored
    /\ exchange.response.raised = "shape mismatch"
    /\ exchange.response.predict_calls = 1
    /\ exchange.response.status = 500
    /\ exchange.prev = 500

\* C5: the load block runs once, before any request; a served request implies
\* both models loaded, and a failed load leaves a process that serves nothing
C5_LoadOnceOrAbort ==
    /\ loadCount <= 1
    /\ proc = "loading" => (loadCount = 0 /\ exchange = NoExchange)
    /\ proc = "serving" =>
          /\ loadCount = 1
          /\ CLASSIFIER \in ClassifierArtifacts
          /\ EMBEDDER \in EmbedderArtifacts
    /\ proc = "aborted" => (loadCount = 1 /\ exchange = NoExchange)
    /\ (loadCount = 1 /\ (CLASSIFIER = "unset" \/ EMBEDDER = "unset")) =>
          (proc = "aborted" /\ exchange = NoExchange)

C5_Witness ==
    /\ proc = "aborted"
    /\ CLASSIFIER \in ClassifierArtifacts
    /\ EMBEDDER = "unset"

StatusIsOK ==
    exchange.method = "GET /status" =>
        /\ exchange.response.status = 200
        /\ exchange.response.body_status = "OK"

\* C6: GET /status answers {"status": "OK"} whatever came before, and no
\* request changes the state of the service
C6_StatusAlwaysOK ==
    /\ []StatusIsOK
    /\ [][proc = "serving" => UNCHANGED <<proc, CLASSIFIER, EMBEDDER, loadCount>>]_vars

C6_Witness ==
    /\ exchange.method = "GET /status"
    /\ exchange.prev = 500
    /\ exchange.response.body_status = "OK"

(***************************************************************************)
(* Dashboard client: score_headlines_streamlit.py                          *)
(*                                                                         *)
(* Streamlit reruns main() on every widget event; a run sees at most one   *)
(* button pressed or one text input changed.                               *)
(***************************************************************************)
SampleRows ==
    << <<"Fed", " ", "hints", " ", "at", " ", "holding", " ", "rates", " ", "steady">>,
       <<"Tech", " ", "shares", " ", "rally", " ", "after", " ", "earnings", " ", "beat">>,
       <<"Geopolitical", " ", "tensions", " ", "rattle", " ", "markets">>,
       <<"Retail", " ", "sales", " ", "surprise", " ", "to", " ", "the", " ", "upside">> >>

\* what the user types into a headline field
EditTexts == {<<" ">>, <<" ", "a", " ">>}

\* what the user puts into the "Quick paste" area
PastedTexts == {<<"\n", " ">>, <<" ", "a", "\n", "\n", "a", " ", "b", " ">>}

\* the widget event of one run
Event(button, index, text) == [button |-> button, index |-> index, text |-> text]

Session(r, res, used) == [rows |-> r, results |-> res, used_rows |-> used]

\* bool(x) of an Optional[List]
Truthy(opt) == opt # None /\ opt.some # <<>>

\* [x.strip() for x in pasted.splitlines() if x.strip()]
RECURSIVE strip_lines(_)
strip_lines(lines) ==
    IF lines = <<>> THEN <<>>
    ELSE (IF strip(Head(lines)) # <<>> THEN <<strip(Head(lines))>> ELSE <<>>)
         \o strip_lines(Tail(lines))

\* the "Reset App" branch of sidebar_controls
sidebar_controls(ss, ev) ==
    IF ev.button = "Reset App" THEN Session(<<>>, None, None) ELSE ss

\* the "Check API" branch of sidebar_controls: what the sidebar shows
check_api(net) ==
    IF net = "down" \/ proc # "serving"
    THEN "API failed"
    ELSE IF get_status.status < 400 /\ get_status.body_status = "OK"
         THEN "API OK"
         ELSE "API bad response"

\* def bulk_paste_controls()
bulk_paste_controls(ss, ev) ==
    IF ev.button = "Replace from paste"
    THEN Session(strip_lines(splitlines(ev.text)), None, None)
    ELSE IF ev.button = "Load sample"
    THEN Session(SampleRows, None, None)
    ELSE ss

\* def editable_rows(): the loop from row index on
RECURSIVE updated_rows(_, _, _)
updated_rows(rs, index, ev) ==
    IF index > Len(rs) THEN <<>>
    ELSE LET new_value ==
                 IF ev.button = "edit" /\ ev.index = index THEN ev.text ELSE rs[index]
             deleted == ev.button = "delete" /\ ev.index = index
         IN  (IF deleted THEN <<>> ELSE <<new_value>>)
             \o updated_rows(rs, index + 1, ev)

editable_rows(ss, ev) ==
    Session(updated_rows(ss.rows, 1, ev), ss.results, ss.used_rows)

\* mutation: "Clear all" empties the list and keeps the results
add_clear_buttons_keep_results(ss, ev) ==
    IF ev.button = "Add headline"
    THEN Session(Append(ss.rows, <<>>), ss.results, ss.used_rows)
    ELSE IF ev.button = "Clear all"
    THEN Session(<<>>, ss.results, ss.used_rows)
    ELSE ss

\* def add_clear_buttons()
add_clear_buttons(ss, ev) ==
    IF ev.button = "Add headline"
    THEN Session(Append(ss.rows, <<>>), ss.results, ss.used_rows)
    ELSE IF ev.button = "Clear all"
    THEN Session(<<>>, None, None)
    ELSE ss

\* mutation: [r.strip() for r in rows if r]
RECURSIVE payload_rows_if_r(_)
payload_rows_if_r(rs) ==
    IF rs = <<>> THEN <<>>
    ELSE (IF Head(rs) # <<>> THEN <<strip(Head(rs))>> ELSE <<>>)
         \o payload_rows_if_r(Tail(rs))

\* payload_rows = [r.strip() for r in rows if r.strip()]
RECURSIVE payload_rows(_)
payload_rows(rs) ==
    IF rs = <<>> THEN <<>>
    ELSE (IF strip(Head(rs)) # <<>> THEN <<strip(Head(rs))>> ELSE <<>>)
         \o payload_rows(Tail(rs))

\* the outcome of score(): the session fields it leaves, the POSTs it made
\* and what it showed
Outcome(res, used, posts, shown) ==
    [results |-> res, used_rows |-> used, sent |-> posts, notice |-> shown]

\* requests.post(...) and the handling of its response, lines 97-115
post_and_store(ss, payload, net, fault) ==
    IF net = "down" \/ proc # "serving"
    THEN Outcome(ss.results, ss.used_rows, <<payload>>, "request_failed")
    ELSE LET response == score_headlines(payload, fault)
         IN  IF response.status >= 400
             THEN Outcome(ss.results, ss.used_rows, <<payload>>, "api_error")
             ELSE LET labels ==
                          IF response.has_labels THEN response.labels ELSE <<>>
                  IN  Outcome(Some(labels), Some(payload), <<payload>>, "Scored")

\* mutation: a failed request is sent a second time
score_retry(ss, net, fault) ==
    LET payload == payload_rows(ss.rows)
        first == post_and_store(ss, payload, net, fault)
    IN  IF payload = <<>>
        THEN Outcome(ss.results, ss.used_rows, <<>>, "warning")
        ELSE IF first.notice = "request_failed"
        THEN Outcome(first.results, first.used_rows, <<payload, payload>>,
                     first.notice)
        ELSE first

\* mutation: the stored results are dropped when a submit starts
score_clear_first(ss, net, fault) ==
    LET payload == payload_rows(ss.rows)
        cleared == Session(ss.rows, None, None)
    IN  IF payload = <<>>
        THEN Outcome(None, None, <<>>, "warning")
        ELSE post_and_store(cleared, payload, net, fault)

\* def score(backend_url, rows)
score(ss, net, fault) ==
    LET payload == payload_rows(ss.rows)
    IN  IF payload = <<>>
        THEN Outcome(ss.results, ss.used_rows, <<>>, "warning")
        ELSE post_and_store(ss, payload, net, fault)

\* def results_table(): the table it shows, None when it returns early
results_table ==
    IF ~(Truthy(results) /\ Truthy(used_rows))
    THEN None
    ELSE IF Len(results.some) # Len(used_rows.some)
    THEN [raises |-> "ValueError"]
    ELSE Some([i \in 1 .. Len(used_rows.some) |->
                  [headline |-> used_rows.some[i], label |-> results.some[i]]])

\* def main(): one run of the script for one widget event.  Each stage is
\* bound once, in the order main() calls them.
main(ev, net, fault) ==
    \E s1 \in {sidebar_controls(Session(rows, results, used_rows), ev)} :
    \E s2 \in {bulk_paste_controls(s1, ev)} :
    \E s3 \in {editable_rows(s2, ev)} :
    \E s4 \in {add_clear_buttons(s3, ev)} :
    \E out \in {IF ev.button = "Score headlines"
                THEN score(s4, net, fault)
                ELSE Outcome(s4.results, s4.used_rows, <<>>,
                             IF ev.button = "Check API" THEN check_api(net)
                             ELSE IF ev.button = "Reset App" THEN "Reset"
                             ELSE "none")} :
        /\ clicked' = ev.button
        /\ rows' = s4.rows
        /\ results' = out.results
        /\ used_rows' = out.used_rows
        /\ sent' = out.sent
        /\ notice' = out.notice

Network == {"up", "down"}
NoFault == [at |-> "none", msg |-> ""]
InferenceFault == [at |-> "predict", msg |-> "shape mismatch"]

\* the client reads the service and never changes it
ServiceUntouched == UNCHANGED <<proc, CLASSIFIER, EMBEDDER, loadCount, exchange>>

EditRow ==
    /\ \E index \in 1 .. Len(rows), text \in EditTexts :
          main(Event("edit", index, text), "up", NoFault)
    /\ ServiceUntouched

ClickDelete ==
    /\ \E index \in 1 .. Len(rows) :
          main(Event("delete", index, <<>>), "up", NoFault)
    /\ ServiceUntouched

ClickAdd ==
    /\ Len(rows) < MaxRows
    /\ main(Event("Add headline", 0, <<>>), "up", NoFault)
    /\ ServiceUntouched

ClickClear ==
    /\ main(Event("Clear all", 0, <<>>), "up", NoFault)
    /\ ServiceUntouched

ClickReset ==
    /\ main(Event("Reset App", 0, <<>>), "up", NoFault)
    /\ ServiceUntouched

ClickReplaceFromPaste ==
    /\ \E pasted \in PastedTexts :
          main(Event("Replace from paste", 0, pasted), "up", NoFault)
    /\ ServiceUntouched

ClickLoadSample ==
    /\ main(Event("Load sample", 0, <<>>), "up", NoFault)
    /\ ServiceUntouched

ClickCheckAPI ==
    /\ \E net \in Network : main(Event("Check API", 0, <<>>), net, NoFault)
    /\ ServiceUntouched

ClickScore ==
    /\ \E net \in Network, fault \in {NoFault, InferenceFault} :
          main(Event("Score headlines", 0, <<>>), net, fault)
    /\ ServiceUntouched

NextClient ==
    \/ Load
    \/ EditRow
    \/ ClickDelete
    \/ ClickAdd
    \/ ClickClear
    \/ ClickReset
    \/ ClickReplaceFromPaste
    \/ ClickLoadSample
    \/ ClickCheckAPI
    \/ ClickScore

SpecClient == Init /\ [][NextClient]_vars

(***************************************************************************)
(* Claims about the client, under SpecClient                               *)
(***************************************************************************)
\* what score() shows when the submit does not succeed
FailureNotices == {"warning", "api_error", "request_failed"}

NonBlank(r) == \E i \in 1 .. Len(r) : r[i] \notin Whitespace

\* r without its leading and trailing whitespace, for a non-blank r
Core(r) ==
    LET inked == {i \in 1 .. Len(r) : r[i] \notin Whitespace}
        first == CHOOSE i \in inked : \A j \in inked : i <= j
        last == CHOOSE i \in inked : \A j \in inked : j <= i
    IN  SubSeq(r, first, last)

ExpectedBatch(rs) ==
    LET kept == SelectSeq(rs, NonBlank)
    IN  [k \in 1 .. Len(kept) |-> Core(kept[k])]

LabelsFor(batch) ==
    [i \in 1 .. Len(batch) |-> LabelsGet(Predict(CLASSIFIER, Encode(batch[i])))]

\* C7: a submit posts the non-blank rows, trimmed, in order, and nothing when
\* there is none; no posted batch is empty or holds a blank or untrimmed text;
\* a successful submit stores the batch and the labels returned for it
C7_SubmitPostsTrimmedRows ==
    /\ \A k \in 1 .. Len(sent) :
          /\ sent[k] # <<>>
          /\ \A i \in 1 .. Len(sent[k]) :
                /\ sent[k][i] # <<>>
                /\ Head(sent[k][i]) \notin Whitespace
                /\ sent[k][i][Len(sent[k][i])] \notin Whitespace
    /\ clicked = "Score headlines" =>
          IF ExpectedBatch(rows) = <<>>
          THEN sent = <<>> /\ notice = "warning"
          ELSE sent = <<ExpectedBatch(rows)>> /\ notice # "warning"
    /\ (clicked = "Score headlines" /\ notice = "Scored") =>
          /\ used_rows = Some(sent[1])
          /\ results = Some(LabelsFor(sent[1]))

C7_Witness ==
    /\ clicked = "Score headlines"
    /\ notice = "Scored"
    /\ Len(rows) = 3
    /\ rows[1] = <<" ", "a", " ">>
    /\ rows[2] = <<" ">>
    /\ rows[3] # <<>>
    /\ Len(sent[1]) = 2
    /\ sent[1][1] = <<"a">>
    /\ results.some[1] # results.some[2]

\* C8: a run makes at most one POST, only a submit makes one, and a failed
\* POST is shown as an error without being sent again
C8_NoAutomaticRetry ==
    /\ Len(sent) <= 1
    /\ clicked # "Score headlines" => sent = <<>>
    /\ clicked = "Score headlines" =>
          /\ notice \in FailureNotices \cup {"Scored"}
          /\ notice = "warning" <=> sent = <<>>

C8_Witness ==
    /\ clicked = "Score headlines"
    /\ notice = "request_failed"
    /\ proc = "serving"
    /\ Len(sent) = 1
    /\ Len(sent[1]) = 4

\* C9: a submit that does not succeed leaves results and used_rows, and the
\* table shown from them, as they were
C9_FailedSubmitKeepsResults ==
    [][(clicked' = "Score headlines" /\ notice' \in FailureNotices) =>
          /\ results' = results
          /\ used_rows' = used_rows
          /\ results_table' = results_table]_vars

C9_Witness ==
    /\ clicked = "Score headlines"
    /\ notice = "api_error"
    /\ Truthy(results)
    /\ results_table # None
    /\ sent # <<>>
    /\ used_rows # Some(sent[1])

ResultsConsistent ==
    \/ results = None /\ used_rows = None
    \/ /\ results # None
       /\ used_rows # None
       /\ Len(results.some) = Len(used_rows.some)
       /\ results.some = LabelsFor(used_rows.some)

\* C10: results and used_rows are both None or both set, index-aligned, the
\* batch of the last successful submit with its labels; clear, reset, paste
\* and sample set both to None; add, remove and edit change neither
C10_ResultsAligned ==
    /\ []ResultsConsistent
    /\ [][/\ clicked' \in {"Clear all", "Reset App", "Replace from paste", "Load sample"}
                => (results' = None /\ used_rows' = None)
          /\ clicked' \in {"Add headline", "delete", "edit"}
                => UNCHANGED <<results, used_rows>>
          /\ \/ UNCHANGED <<results, used_rows>>
             \/ results' = None /\ used_rows' = None
             \/ /\ clicked' = "Score headlines"
                /\ notice' = "Scored"
                /\ used_rows' = Some(sent'[1])]_vars

C10_Witness ==
    /\ clicked = "edit"
    /\ Truthy(results)
    /\ Len(used_rows.some) = 3
    /\ results.some[1] # results.some[2]
    /\ payload_rows(rows) # used_rows.some
====
